---- MODULE Spec2Model ----
(***************************************************************************)
(* lwe::mem::pool -- fixed-size chunk allocator (src/pool/pool.inl and the *)
(* class declaration in src/unnamed/part_000).                             *)
(*                                                                         *)
(* The heap is modelled as it is used by the code: a flat memory of        *)
(* pointer-sized words indexed by byte address.  A block is the run of     *)
(* ALLOCTATE bytes the raw backend returned; its header fields and the     *)
(* back-reference / next-free slots of its chunks are words of that        *)
(* memory, read and written at the addresses the code computes.  Pointers  *)
(* are byte addresses, 0 is nullptr, a pool object p is the value -p.      *)
(* An access outside every live block (null included) is an access         *)
(* violation: the operation stops there and the process is dead (fault).   *)
(* Objects are raw storage (T = void, the default template argument), so   *)
(* construct and destruct run no constructor or destructor.                *)
(***************************************************************************)
EXTENDS Integers, Sequences, FiniteSets, TLC

VARIABLES
    cfg,     \* the (chunk, count, align) the pools were constructed with
    mem,     \* heap words: byte address -> value
    live,    \* base addresses of the blocks the raw backend has handed out
    top,     \* pool -> block* : pool::top
    idle,    \* pool -> sequence of block* : pool::idle
    all,     \* pool -> set of block* : pool::all
    gc,      \* pool -> sequence of void* : pool::gc
    fault,   \* TRUE once an operation made an invalid memory access
    held,    \* the pointers construct returned that callers have not given back
    ret,     \* what the construct that led to this state returned (Nil: no construct did)
    nrel,    \* number of release calls so far
    ncon,    \* number of constructs that returned a chunk so far
    sc       \* what a caller recorded of the calls it made (SpecLifo, SpecFresh)

vars == <<cfg, mem, live, top, idle, all, gc, fault, held, ret, nrel, ncon, sc>>

-----------------------------------------------------------------------------
(* Bounds of the model *)

\* number of block-sized regions the raw memory backend can hand out
MaxBlocks == 2

\* number of release calls
MaxReleases == 1

\* number of construct calls that return a chunk
MaxConstructs == 3

\* bytes between the bases of two backend regions: a multiple of every ALIGNMENT
\* used and at least every ALLOCTATE used
SlotStride == 3 * 64

\* two pools, A and B
Pools == 1..2

\* no value
Nil == 0 - 1

-----------------------------------------------------------------------------
(* Program constants *)

\* sizeof(void*)
PTR == 8

\* sizeof(block): four pointers
HEADER == 32

\* config::DEF_CACHE, the granularity COUNT is adjusted to
DEF_CACHE == 2

\* offsets of the fields of struct block
OffFrom == 0
OffCurr == 8
OffNext == 16
OffPrev == 24

-----------------------------------------------------------------------------
(* util::aligner *)

RECURSIVE pow2ge(_, _)
pow2ge(n, p) == IF p >= n THEN p ELSE pow2ge(n, 2 * p)

\* smallest power of two that is at least n
boundary(n) == pow2ge(n, 1)

\* v rounded up to a multiple of u
adjust(v, u) == ((v + u - 1) \div u) * u

-----------------------------------------------------------------------------
(* pool::pool : the four constants of a pool *)

ALIGNMENT_of(c) == boundary(c.align)
SIZE_of(c) == adjust(c.chunk + PTR, c.align)
COUNT_of(c) == adjust(c.count, DEF_CACHE)
ALLOCTATE_of(c) ==
    adjust(adjust(HEADER + PTR, ALIGNMENT_of(c)) + (SIZE_of(c) * COUNT_of(c)) - PTR,
           ALIGNMENT_of(c))

ALIGNMENT == ALIGNMENT_of(cfg)
SIZE == SIZE_of(cfg)
COUNT == COUNT_of(cfg)
ALLOCTATE == ALLOCTATE_of(cfg)

\* the configurations the pools are constructed with
Configs ==
    { [chunk |-> 24, count |-> 2, align |-> 64],
      [chunk |-> 24, count |-> 2, align |-> 32],
      [chunk |-> 24, count |-> 2, align |-> 16],
      [chunk |-> 24, count |-> 2, align |-> 8] }

-----------------------------------------------------------------------------
(* The heap *)

SlotBase(k) == k * SlotStride
Slots == 1..MaxBlocks
Addrs == { a \in SlotStride..(SlotStride * (MaxBlocks + 1) - PTR) : a % PTR = 0 }

PoolPtr(p) == 0 - p
IsPoolPtr(v) == \E p \in Pools : v = PoolPtr(p)
PoolOf(v) == 0 - v

\* the state an operation works on
St == [mem |-> mem, live |-> live, top |-> top, idle |-> idle, all |-> all,
       gc |-> gc, fault |-> fault, ret |-> 0]

\* a word at address a can be accessed: it lies in a block the backend handed out
Mapped(s, a) ==
    /\ a \in Addrs
    /\ \E b \in s.live : b <= a /\ a + PTR <= b + ALLOCTATE

Fault(s) == [s EXCEPT !.fault = TRUE]

\* store v at address a
Wr(s, a, v) ==
    IF s.fault \/ ~Mapped(s, a) THEN Fault(s) ELSE [s EXCEPT !.mem[a] = v]

\* apply a sequence of stores <<address, value>> in order
RECURSIVE WrAll(_, _)
WrAll(s, ws) ==
    IF ws = <<>> THEN s ELSE WrAll(Wr(s, Head(ws)[1], Head(ws)[2]), Tail(ws))

-----------------------------------------------------------------------------
(* pool::block *)

\* address of chunk i (0-based) as initialize lays it out
ChunkAt(b, i) == b + ALIGNMENT - PTR + i * SIZE

\* the stores of the loop of initialize and of the two lines after it
InitStores(b, count) ==
    [k \in 1..(2 * count) |->
        LET i == (k - 1) \div 2 IN
        IF k % 2 = 1 THEN <<ChunkAt(b, i), b>>
        ELSE <<ChunkAt(b, i) + PTR, IF i = count - 1 THEN 0 ELSE ChunkAt(b, i + 1)>>]

\* block::initialize(parent, count, alignment) on the block at b
initialize(s, b, p, count) ==
    WrAll(s, << <<b + OffFrom, PoolPtr(p)>>,
                <<b + OffNext, 0>>,
                <<b + OffPrev, 0>>,
                <<b + OffCurr, ChunkAt(b, 0)>> >> \o InitStores(b, count))

\* block::get() on the block at b; the chunk is left in ret
get(s, b) ==
    IF s.fault \/ ~Mapped(s, b + OffCurr) THEN Fault(s)
    ELSE LET curr == s.mem[b + OffCurr] IN
         IF curr = 0 THEN [s EXCEPT !.ret = 0]
         ELSE IF ~Mapped(s, curr + PTR) THEN Fault(s)
         ELSE [Wr(s, b + OffCurr, s.mem[curr + PTR]) EXCEPT !.ret = curr]

\* set that links the chunk behind the head of the free list, not in front of it
setBehindHead(s, b, in) ==
    IF s.fault THEN s
    ELSE IF in = 0 THEN s
    ELSE IF ~Mapped(s, b + OffCurr) THEN Fault(s)
    ELSE LET curr == s.mem[b + OffCurr] IN
         IF curr = 0 THEN Wr(Wr(s, in + PTR, 0), b + OffCurr, in)
         ELSE IF ~Mapped(s, curr + PTR) THEN Fault(s)
         ELSE Wr(Wr(s, in + PTR, s.mem[curr + PTR]), curr + PTR, in)

\* block::set(in) on the block at b
set(s, b, in) ==
    IF s.fault THEN s
    ELSE IF in = 0 THEN s
    ELSE IF ~Mapped(s, b + OffCurr) THEN Fault(s)
    ELSE Wr(Wr(s, in + PTR, s.mem[b + OffCurr]), b + OffCurr, in)

-----------------------------------------------------------------------------
(* pool *)

\* setup with all.insert(self) moved in front of the null check
setupInsertsNull(s, p, m) ==
    IF m = 0 THEN [s EXCEPT !.all[p] = @ \cup {0}, !.ret = 0]
    ELSE LET s1 == initialize([s EXCEPT !.live = @ \cup {m}], m, p, COUNT) IN
         IF s1.fault THEN s1
         ELSE [s1 EXCEPT !.all[p] = @ \cup {m}, !.ret = m]

\* pool::setup() of pool p; m is what _aligned_malloc returns (0: no memory)
setup(s, p, m) ==
    IF m = 0 THEN [s EXCEPT !.ret = 0]
    ELSE LET s1 == initialize([s EXCEPT !.live = @ \cup {m}], m, p, COUNT) IN
         IF s1.fault THEN s1
         ELSE [s1 EXCEPT !.all[p] = @ \cup {m}, !.ret = m]

\* construct, lines 129-141: take a chunk from top, leave it in ret
takeTop(s, p) ==
    LET s1 == get(s, s.top[p]) IN
    IF s1.fault THEN s1
    ELSE LET t == s1.top[p] IN
         IF s1.mem[t + OffCurr] # 0 THEN s1
         ELSE IF ~Mapped(s1, t + OffNext) THEN Fault(s1)
         ELSE IF s1.mem[t + OffNext] # 0
              THEN LET n  == s1.mem[t + OffNext]
                       s2 == [s1 EXCEPT !.top[p] = n] IN
                   IF ~Mapped(s2, n + OffPrev) THEN Fault(s2)
                   ELSE LET s3 == Wr(s2, s2.mem[n + OffPrev] + OffNext, 0) IN
                        Wr(s3, n + OffPrev, 0)
              ELSE [s1 EXCEPT !.top[p] = 0]

\* construct that asks the backend as soon as top is null and no block is
\* idle, without trying the cross-owner queue
constructSetupFirst(s, p, m) ==
    IF s.top[p] # 0 THEN LET s1 == takeTop(s, p) IN
                         IF s1.fault THEN s1 ELSE [s1 EXCEPT !.ret = @ + PTR]
    ELSE IF Len(s.idle[p]) > 0
         THEN LET s1 == takeTop([s EXCEPT !.top[p] = Head(s.idle[p]),
                                          !.idle[p] = Tail(@)], p) IN
              IF s1.fault THEN s1 ELSE [s1 EXCEPT !.ret = @ + PTR]
    ELSE LET s1 == setup(s, p, m)
             s2 == [s1 EXCEPT !.top[p] = s1.ret] IN
         IF s1.fault THEN s1
         ELSE IF s1.ret = 0 THEN s1
         ELSE LET s3 == takeTop(s2, p) IN
              IF s3.fault THEN s3 ELSE [s3 EXCEPT !.ret = @ + PTR]

\* pool::construct<void>() on pool p; the returned pointer is left in ret,
\* m is what _aligned_malloc returns if it is called
construct(s, p, m) ==
    IF s.top[p] # 0 THEN LET s1 == takeTop(s, p) IN
                         IF s1.fault THEN s1 ELSE [s1 EXCEPT !.ret = @ + PTR]
    ELSE IF Len(s.idle[p]) > 0
         THEN LET s1 == takeTop([s EXCEPT !.top[p] = Head(s.idle[p]),
                                          !.idle[p] = Tail(@)], p) IN
              IF s1.fault THEN s1 ELSE [s1 EXCEPT !.ret = @ + PTR]
    ELSE IF Len(s.gc[p]) > 0
         THEN LET ptr == Head(s.gc[p])
                  s1  == [s EXCEPT !.gc[p] = Tail(@)] IN
              IF ptr # 0 THEN [s1 EXCEPT !.ret = ptr + PTR]
              ELSE LET s2 == takeTop(s1, p) IN
                   IF s2.fault THEN s2 ELSE [s2 EXCEPT !.ret = @ + PTR]
    ELSE LET s1 == setup(s, p, m)
             s2 == [s1 EXCEPT !.top[p] = s1.ret] IN
         IF s1.fault THEN s1
         ELSE IF s2.top[p] = 0 THEN [s2 EXCEPT !.ret = 0]
         ELSE LET s3 == takeTop(s2, p) IN
              IF s3.fault THEN s3 ELSE [s3 EXCEPT !.ret = @ + PTR]

\* recycle, lines 211-224: the block at parent has curr = parent + 1
moveIdle(s, p, parent) ==
    IF parent = s.top[p] THEN s
    ELSE LET s1 == IF s.mem[parent + OffNext] # 0
                   THEN Wr(Wr(s, s.mem[parent + OffNext] + OffPrev, s.mem[parent + OffPrev]),
                           parent + OffNext, 0)
                   ELSE s IN
         IF s1.fault THEN s1
         ELSE LET s2 == IF s1.mem[parent + OffPrev] # 0
                        THEN Wr(Wr(s1, s1.mem[parent + OffPrev] + OffNext,
                                   s1.mem[parent + OffNext]),
                                parent + OffPrev, 0)
                        ELSE s1 IN
              IF s2.fault THEN s2
              ELSE [s2 EXCEPT !.idle[p] = Append(@, parent)]

\* pool::recycle(in) on pool p
recycle(s, p, in) ==
    IF s.fault \/ ~Mapped(s, in) THEN Fault(s)
    ELSE LET parent == s.mem[in] IN
    IF ~Mapped(s, parent + OffCurr) THEN Fault(s)
    ELSE LET s1 == IF s.mem[parent + OffCurr] = 0
                   THEN LET a == IF s.top[p] # 0
                                 THEN Wr(s, s.top[p] + OffPrev, parent) ELSE s
                            b == Wr(Wr(a, parent + OffNext, s.top[p]), parent + OffPrev, 0)
                        IN  IF b.fault THEN b ELSE [b EXCEPT !.top[p] = parent]
                   ELSE s
             s2 == set(s1, parent, in) IN
         IF s2.fault THEN s2
         ELSE IF s2.mem[parent + OffCurr] # parent + HEADER THEN s2
         ELSE IF ~Mapped(s2, parent + OffNext) \/ ~Mapped(s2, parent + OffPrev)
              THEN Fault(s2)
         ELSE moveIdle(s2, p, parent)

\* destruct, lines 173-175: drain the pool's own queue through recycle
RECURSIVE drainRecycle(_, _)
drainRecycle(s, p) ==
    IF s.fault \/ Len(s.gc[p]) = 0 THEN s
    ELSE drainRecycle(recycle([s EXCEPT !.gc[p] = Tail(@)], p, Head(s.gc[p])), p)

\* destruct without the owner test: every chunk is recycled into this pool
destructNoOwnerTest(s, p, in) ==
    IF in = 0 THEN s
    ELSE LET ptr == in - PTR IN
    IF ~Mapped(s, ptr) THEN Fault(s)
    ELSE LET child == s.mem[ptr] IN
    IF ~Mapped(s, child + OffFrom) THEN Fault(s)
    ELSE drainRecycle(recycle(s, p, ptr), p)

\* pool::destruct<void>(in) on pool p
destruct(s, p, in) ==
    IF in = 0 THEN s
    ELSE LET ptr == in - PTR IN
    IF ~Mapped(s, ptr) THEN Fault(s)
    ELSE LET child == s.mem[ptr] IN
    IF ~Mapped(s, child + OffFrom) THEN Fault(s)
    ELSE LET self == s.mem[child + OffFrom] IN
    IF self = PoolPtr(p) THEN drainRecycle(recycle(s, p, ptr), p)
    ELSE IF ~IsPoolPtr(self) THEN Fault(s)
    ELSE drainRecycle([s EXCEPT !.gc[PoolOf(self)] = Append(@, ptr)], p)

\* cleanup, lines 179-182: drain the pool's own queue through block::set
RECURSIVE drainSet(_, _)
drainSet(s, p) ==
    IF s.fault \/ Len(s.gc[p]) = 0 THEN s
    ELSE LET garbage == Head(s.gc[p])
             s1 == [s EXCEPT !.gc[p] = Tail(@)] IN
         IF ~Mapped(s1, garbage) THEN Fault(s1)
         ELSE drainSet(set(s1, s1.mem[garbage], garbage), p)

\* cleanup, lines 184-191: free every block of the idle queue
RECURSIVE freeIdle(_, _)
freeIdle(s, p) ==
    IF s.fault \/ Len(s.idle[p]) = 0 THEN s
    ELSE LET ptr == Head(s.idle[p])
             s1  == [s EXCEPT !.idle[p] = Tail(@)] IN
         IF ptr = 0 THEN freeIdle(s1, p)
         ELSE IF ptr \notin s1.live THEN Fault([s1 EXCEPT !.all[p] = @ \ {ptr}])
         ELSE freeIdle([s1 EXCEPT !.all[p] = @ \ {ptr}, !.live = @ \ {ptr}], p)

\* pool::cleanup() on pool p
cleanup(s, p) == freeIdle(drainSet(s, p), p)

\* release that returns the chunk to its block itself instead of queueing it
releaseRecycles(s, in) ==
    LET ptr == in - PTR IN
    IF ~Mapped(s, ptr) THEN Fault(s)
    ELSE LET b == s.mem[ptr] IN
    IF ~Mapped(s, b + OffFrom) THEN Fault(s)
    ELSE LET parent == s.mem[b + OffFrom] IN
    IF ~IsPoolPtr(parent) THEN Fault(s)
    ELSE recycle(s, PoolOf(parent), ptr)

\* pool::release<void>(in)
release(s, in) ==
    LET ptr == in - PTR IN
    IF ~Mapped(s, ptr) THEN Fault(s)
    ELSE LET b == s.mem[ptr] IN
    IF ~Mapped(s, b + OffFrom) THEN Fault(s)
    ELSE LET parent == s.mem[b + OffFrom] IN
    IF ~IsPoolPtr(parent) THEN Fault(s)
    ELSE [s EXCEPT !.gc[PoolOf(parent)] = Append(@, in)]

-----------------------------------------------------------------------------
(* The callers *)

\* what _aligned_malloc can return: no memory, or the lowest region not in use
FreeSlots == { j \in Slots : SlotBase(j) \notin live }
MallocResults ==
    {0} \cup { SlotBase(k) : k \in { j \in FreeSlots : \A i \in FreeSlots : j <= i } }

Commit(s) ==
    /\ mem' = s.mem
    /\ live' = s.live
    /\ top' = s.top
    /\ idle' = s.idle
    /\ all' = s.all
    /\ gc' = s.gc
    /\ fault' = s.fault

Init ==
    /\ cfg \in Configs
    /\ mem = [a \in Addrs |-> 0]
    /\ live = {}
    /\ top = [p \in Pools |-> 0]
    /\ idle = [p \in Pools |-> <<>>]
    /\ all = [p \in Pools |-> {}]
    /\ gc = [p \in Pools |-> <<>>]
    /\ fault = FALSE
    /\ ncon = 0
    /\ held = {}
    /\ ret = Nil
    /\ nrel = 0
    /\ sc = <<>>

\* a caller calls p.construct(); _aligned_malloc, if called, returns m
ConstructWith(p, m) ==
    /\ ~fault
    /\ ncon < MaxConstructs
    /\ m \in MallocResults
    /\ LET s == construct(St, p, m) IN
        /\ Commit(s)
        /\ held' = IF s.fault \/ s.ret = 0 THEN held ELSE held \cup {s.ret}
        /\ ret' = IF s.fault THEN Nil ELSE s.ret
        /\ ncon' = IF s.fault \/ s.ret = 0 THEN ncon ELSE ncon + 1
    /\ UNCHANGED <<cfg, nrel>>

Construct(p) == \E m \in {0} \cup { SlotBase(k) : k \in Slots } : ConstructWith(p, m)

\* a caller calls p.destruct(in) with a pointer it holds, or with nullptr
Destruct(p, in) ==
    /\ ~fault
    /\ in \in held \cup {0}
    /\ Commit(destruct(St, p, in))
    /\ held' = held \ {in}
    /\ ret' = Nil
    /\ UNCHANGED <<cfg, nrel, ncon>>

\* a caller calls pool::release(in) with a pointer it holds, or with nullptr
Release(in) ==
    /\ ~fault
    /\ nrel < MaxReleases
    /\ in \in held \cup {0}
    /\ Commit(release(St, in))
    /\ held' = held \ {in}
    /\ ret' = Nil
    /\ nrel' = nrel + 1
    /\ UNCHANGED <<cfg, ncon>>

\* the owner calls p.cleanup()
Cleanup(p) ==
    /\ ~fault
    /\ Commit(cleanup(St, p))
    /\ ret' = Nil
    /\ UNCHANGED <<cfg, held, nrel, ncon>>

Next ==
    \/ \E p \in Pools : Construct(p) /\ UNCHANGED sc
    \/ \E p \in Pools : \E in \in held \cup {0} : Destruct(p, in) /\ UNCHANGED sc
    \/ \E in \in held \cup {0} : Release(in) /\ UNCHANGED sc
    \/ \E p \in Pools : Cleanup(p) /\ UNCHANGED sc

Spec == Init /\ [][Next]_vars

-----------------------------------------------------------------------------
(* What the properties speak about *)

Range(q) == { q[i] : i \in 1..Len(q) }

\* the chunks of the block at b
Chunks(b) == { ChunkAt(b, i) : i \in 0..(COUNT - 1) }

\* the blocks of all pools
Blocks == UNION { all[p] : p \in Pools }

\* the block whose memory holds address a (0: none)
BlockAt(a) ==
    IF \E b \in Blocks : b <= a /\ a < b + ALLOCTATE
    THEN CHOOSE b \in Blocks : b <= a /\ a < b + ALLOCTATE
    ELSE 0

\* the pool that allocated the block holding address a (0: none)
OwnerAt(a) ==
    IF \E p \in Pools : BlockAt(a) \in all[p]
    THEN CHOOSE p \in Pools : BlockAt(a) \in all[p]
    ELSE 0

\* the addresses linked from address a through the next-free slots
RECURSIVE Linked(_, _)
Linked(a, seen) ==
    IF a = 0 \/ a \in seen \/ a \notin Addrs \/ (a + PTR) \notin Addrs THEN seen
    ELSE Linked(mem[a + PTR], seen \cup {a})

\* the free list of the block at b
FreeList(b) == Linked(mem[b + OffCurr], {})

\* the blocks linked from block b through the next fields
RECURSIVE Chain(_, _)
Chain(b, seen) ==
    IF b = 0 \/ b \in seen \/ b \notin Addrs THEN seen
    ELSE Chain(mem[b + OffNext], seen \cup {b})

\* the chunks pool p can hand out without a destruct: those in the free lists
\* of the blocks of its available chain and of its idle queue
Available(p) ==
    UNION { FreeList(b) : b \in (Chain(top[p], {}) \cup Range(idle[p])) \cap Addrs }

\* everything queued in some cross-owner queue
Queued == UNION { Range(gc[p]) : p \in Pools }

\* every address linked in the free list of some block
Free == UNION { FreeList(b) : b \in Blocks }

\* the addresses of the words of the block at b
BlockWords(b) == { b + k * PTR : k \in 0..((ALLOCTATE \div PTR) - 1) }

\* the list linked from address a through the next-free slots runs into itself
RECURSIVE Cyclic(_, _)
Cyclic(a, seen) ==
    IF a = 0 \/ a \notin Addrs \/ (a + PTR) \notin Addrs THEN FALSE
    ELSE IF a \in seen THEN TRUE
    ELSE Cyclic(mem[a + PTR], seen \cup {a})

\* the chunks of the block at b that no caller holds and no queue holds
Unused(b) == Chunks(b) \ ({ h - PTR : h \in held } \cup Queued)

-----------------------------------------------------------------------------
(* The program in which every chunk is given back through the pool that owns it *)

NextOwner ==
    \/ \E p \in Pools : Construct(p) /\ UNCHANGED sc
    \/ \E p \in Pools : \E in \in held :
          OwnerAt(in - PTR) = p /\ Destruct(p, in) /\ UNCHANGED sc
    \/ \E p \in Pools : Cleanup(p) /\ UNCHANGED sc

SpecOwner == Init /\ [][NextOwner]_vars

-----------------------------------------------------------------------------
(* The program with an observer of one scenario: p.construct returns A, the  *)
(* next call is p.construct and returns B, a chunk of the same block, then   *)
(* p.destruct(B), then p.destruct(A), then constructs on p served from that  *)
(* block.  sc is <<p, A, B, number of destructs done, results of the later   *)
(* constructs>>; any other call ends the scenario.                           *)

\* no entry of p's cross-owner queue lies in the block at b
NoneQueued(p, b) == \A x \in Range(gc[p]) : BlockAt(x) # b

\* sc after p.construct
ObserveConstruct(p) ==
    LET r == ret' IN
    IF fault' THEN <<>>
    ELSE IF Len(sc) \in {4, 5} /\ sc[4] = 2 /\ sc[1] = p
            /\ top[p] # 0 /\ top[p] = BlockAt(sc[2] - PTR)
         THEN Append(sc, r)
    ELSE IF r = 0 THEN <<>>
    ELSE IF Len(sc) = 2 /\ sc[1] = p /\ r # sc[2]
            /\ BlockAt(sc[2] - PTR) \in all[p]
            /\ {sc[2] - PTR, r - PTR} \subseteq Chunks(BlockAt(sc[2] - PTR))
         THEN <<p, sc[2], r>>
    ELSE <<p, r>>

\* sc after p.destruct(in)
ObserveDestruct(p, in) ==
    IF fault' THEN <<>>
    ELSE IF Len(sc) = 3 /\ sc[1] = p /\ in = sc[3]
            /\ NoneQueued(p, BlockAt(sc[2] - PTR))
         THEN <<p, sc[2], sc[3], 1>>
    ELSE IF Len(sc) = 4 /\ sc[4] = 1 /\ sc[1] = p /\ in = sc[2]
            /\ NoneQueued(p, BlockAt(sc[2] - PTR))
         THEN <<p, sc[2], sc[3], 2>>
    ELSE <<>>

NextLifo ==
    \/ \E p \in Pools : Construct(p) /\ sc' = ObserveConstruct(p)
    \/ \E p \in Pools : \E in \in held \cup {0} :
          Destruct(p, in) /\ sc' = ObserveDestruct(p, in)
    \/ \E in \in held \cup {0} : Release(in) /\ sc' = <<>>
    \/ \E p \in Pools : Cleanup(p) /\ sc' = <<>>

SpecLifo == Init /\ [][NextLifo]_vars

-----------------------------------------------------------------------------
(* Fresh pools that only construct, over a wider range of configurations.   *)
(* sc is the sequence of <<p, pointer>> of the constructs that returned a   *)
(* chunk, in call order.                                                    *)

\* (chunk, count, align) whose block fits a backend region of the model
FreshConfigs ==
    { c \in [chunk : {8, 24, 40}, count : 1..4, align : {8, 16, 24, 32, 48, 64}] :
        ALLOCTATE_of(c) <= SlotStride }

InitFresh ==
    /\ cfg \in FreshConfigs
    /\ mem = [a \in Addrs |-> 0]
    /\ live = {}
    /\ top = [p \in Pools |-> 0]
    /\ idle = [p \in Pools |-> <<>>]
    /\ all = [p \in Pools |-> {}]
    /\ gc = [p \in Pools |-> <<>>]
    /\ fault = FALSE
    /\ ncon = 0
    /\ held = {}
    /\ ret = Nil
    /\ nrel = 0
    /\ sc = <<>>

NextFresh ==
    \E p \in Pools :
        /\ Construct(p)
        /\ sc' = IF fault' \/ ret' = 0 THEN sc ELSE Append(sc, <<p, ret'>>)

SpecFresh == InitFresh /\ [][NextFresh]_vars

\* the pointers p.construct returned, in call order
Returned(p) ==
    LET rs == SelectSeq(sc, LAMBDA e : e[1] = p) IN [i \in 1..Len(rs) |-> rs[i][2]]

-----------------------------------------------------------------------------
(* Properties.  A property about what a call does speaks about the calls     *)
(* that return; a call that makes an invalid access sets fault and nothing   *)
(* runs after it.                                                            *)

\* C1: no double-issue.  A construct that returns a chunk never returns a
\* pointer a caller still holds, nor a chunk that is still linked in the free
\* list of a block, nor one that is still queued in a cross-owner queue.
NoDoubleIssue ==
    [][\A p \in Pools : (Construct(p) /\ ret' # Nil /\ ret' # 0) =>
          /\ ret' \notin held
          /\ (ret' - PTR) \notin Free'
          /\ (ret' - PTR) \notin Queued']_vars

\* C3: cross-owner reclamation.  (1) A construct on a pool never returns a
\* chunk that waits in another pool's cross-owner queue.  (2) When pool A's
\* cleanup, or destruct of a non-null pointer, returns, every chunk of A that
\* was in A's cross-owner queue is in the free list of a block reachable from
\* A's top or standing in A's idle queue.
CrossOwnerReclaimed ==
    [][/\ \A B \in Pools : (Construct(B) /\ ret' # Nil /\ ret' # 0) =>
              \A A \in Pools \ {B} : (ret' - PTR) \notin Range(gc[A])
       /\ \A A \in Pools :
              ((Cleanup(A) \/ \E in \in held : Destruct(A, in)) /\ ~fault') =>
                  \A x \in Range(gc[A]) :
                      (\E b \in all[A] : x \in Chunks(b)) => x \in Available(A)']_vars

\* C4: idle reclamation.  When every chunk is given back through its owning
\* pool, a block that is not top and has no chunk with a caller is in the
\* idle queue.
IdleReclamation ==
    ~fault => \A p \in Pools : \A b \in all[p] :
                  (b # top[p] /\ \A c \in Chunks(b) : (c + PTR) \notin held)
                      => b \in Range(idle[p])

\* C5: back-reference integrity.  For every block of every pool, the owner
\* field holds the pool that allocated it and the back-reference slot of each
\* of its chunks holds the block.
BackRefIntegrity ==
    ~fault => \A p \in Pools : \A b \in all[p] :
                  /\ mem[b + OffFrom] = PoolPtr(p)
                  /\ \A c \in Chunks(b) : mem[c] = b

\* C6: null safety.  destruct(nullptr) on any pool and release(nullptr) return
\* without an invalid access and leave the heap and every pool unchanged.
NullSafety ==
    [][((\E p \in Pools : Destruct(p, 0)) \/ Release(0)) =>
          (~fault' /\ UNCHANGED <<mem, live, top, idle, all, gc>>)]_vars

\* C7: allocation failure leaves no trace.  A construct on a pool whose top is
\* null and whose idle queue and cross-owner queue are empty, for which the
\* backend returns null, returns null and changes neither the heap nor any
\* field of any pool.
AllocFailureNoTrace ==
    [][\A p \in Pools :
          (ConstructWith(p, 0) /\ top[p] = 0 /\ idle[p] = <<>> /\ gc[p] = <<>>) =>
              (ret' = 0 /\ ~fault' /\ UNCHANGED <<mem, live, top, idle, all, gc, held>>)]_vars

\* C7 witness: a construct has just returned null on a pool that owns blocks,
\* all of them full, while callers hold chunks.
AllocFailureSeen ==
    /\ ret = 0
    /\ ~fault
    /\ held # {}
    /\ \E p \in Pools : all[p] # {} /\ top[p] = 0 /\ idle[p] = <<>> /\ gc[p] = <<>>

QueueHoldsChunkBases ==
    \A p \in Pools : \A x \in Range(gc[p]) : \E b \in all[p] : x \in Chunks(b)

BlockGrowth ==
    \A p \in Pools :
        LET rs == Returned(p) IN
        Len(rs) >= 1 =>
            \E b1 \in all[p] :
                /\ \A i \in 1..Len(rs) : i <= COUNT => rs[i] - PTR \in Chunks(b1)
                /\ Len(rs) <= COUNT => all[p] = {b1}
                /\ Len(rs) >= COUNT + 1 =>
                      \E b2 \in all[p] \ {b1} :
                          /\ rs[COUNT + 1] - PTR \in Chunks(b2)
                          /\ ~(b1 <= rs[COUNT + 1] /\ rs[COUNT + 1] < b1 + ALLOCTATE)
                          /\ Len(rs) = COUNT + 1 => all[p] = {b1, b2}

\* C12: alignment.  Every pointer a construct returns is a multiple of
\* ALIGNMENT, and so is the object address of every chunk of every block.
ReturnsAligned ==
    /\ (~fault /\ ret # Nil /\ ret # 0) => ret % ALIGNMENT = 0
    /\ \A b \in Blocks : \A c \in Chunks(b) : (c + PTR) % ALIGNMENT = 0

\* C19: the block layout fits and does not overlap.  Every chunk of every
\* block starts at or after the end of the block header and ends at or before
\* block + ALLOCTATE, and the address recycle compares curr with, the one just
\* past the header, is the address of the first chunk.
LayoutFits ==
    \A b \in Blocks :
        /\ \A c \in Chunks(b) : b + HEADER <= c /\ c + SIZE <= b + ALLOCTATE
        /\ ChunkAt(b, 0) = b + HEADER

\* C20: free-list integrity.  The free list of every block is acyclic and
\* holds exactly the chunks of the block that no caller holds and that wait
\* in no cross-owner queue; a non-null top has a free chunk; construct
\* returns no pointer derived from null.
FreeListIntegrity ==
    /\ \A b \in Blocks :
          /\ ~Cyclic(mem[b + OffCurr], {})
          /\ FreeList(b) = Unused(b)
    /\ \A p \in Pools : top[p] # 0 => mem[top[p] + OffCurr] # 0
    /\ ret # PTR

\* C15: the idle test is exact.  For every block, the condition recycle
\* tests, curr = block + 1 (the address just past the header), is true
\* exactly when all COUNT chunks of the block are in its free list.
IdleTestExact ==
    \A b \in Blocks :
        (mem[b + OffCurr] = b + HEADER) <=> (Chunks(b) \subseteq FreeList(b))

\* C16: block membership.  No block of a pool is both in the available chain
\* and in the idle queue, and a block is in neither exactly when it is full
\* (curr is null).
BlockMembership ==
    \A p \in Pools : \A b \in all[p] :
        LET inChain == b \in Chain(top[p], {})
            inIdle  == b \in Range(idle[p]) IN
        /\ ~(inChain /\ inIdle)
        /\ (~inChain /\ ~inIdle) <=> (mem[b + OffCurr] = 0)

\* C17: the available chain is a well-formed doubly-linked list.  top.prev is
\* null, and b.next = n implies n.prev = b for every block b of the chain.
ChainWellFormed ==
    \A p \in Pools :
        top[p] # 0 =>
            /\ mem[top[p] + OffPrev] = 0
            /\ \A b \in Chain(top[p], {}) :
                  LET n == mem[b + OffNext] IN
                  n # 0 => (n \in Addrs /\ mem[n + OffPrev] = b)

\* C18: cleanup drains by recycling.  A cleanup that returns leaves the pool
\* in the state that recycling every queued chunk, as the drain of destruct
\* does, and then freeing the idle blocks would leave it in.
CleanupRecycles ==
    [][\A p \in Pools :
          (Cleanup(p) /\ ~fault') =>
              LET s == freeIdle(drainRecycle(St, p), p) IN
              /\ ~s.fault
              /\ mem' = s.mem
              /\ top' = s.top
              /\ idle' = s.idle
              /\ all' = s.all
              /\ gc' = s.gc
              /\ live' = s.live]_vars

\* what a step leaves of pool A when it writes at most A's cross-owner queue,
\* and that only by a push: top, the idle queue, the set of blocks and every
\* word of A's blocks (links and free lists) are unchanged, and the old queue
\* is a prefix of the new one
OnlyPushed(A) ==
    /\ top'[A] = top[A]
    /\ idle'[A] = idle[A]
    /\ all'[A] = all[A]
    /\ \A b \in all[A] : \A a \in BlockWords(b) : mem'[a] = mem[a]
    /\ Len(gc'[A]) \in {Len(gc[A]), Len(gc[A]) + 1}
    /\ SubSeq(gc'[A], 1, Len(gc[A])) = gc[A]

SourceOrder ==
    [][\A p \in Pools :
          Construct(p) =>
              /\ (live' # live \/ ret' = 0) =>
                    (top[p] = 0 /\ idle[p] = <<>> /\ gc[p] = <<>>)
              /\ (~fault' /\ top[p] = 0 /\ idle[p] # <<>>) =>
                    /\ top'[p] = Head(idle[p])
                    /\ idle'[p] = Tail(idle[p])
                    /\ gc' = gc
                    /\ live' = live
              /\ (top[p] = 0 /\ idle[p] = <<>> /\ gc[p] # <<>>) =>
                    /\ ~fault'
                    /\ ret' = Head(gc[p]) + PTR
                    /\ gc'[p] = Tail(gc[p])
                    /\ top' = top
                    /\ mem' = mem
                    /\ live' = live]_vars

\* C14 witness: with the header clear of the chunks, a construct has just
\* returned a pointer that is the object address of no chunk while the pool's
\* top is null: the entry release queued was popped and returned directly.
SourceOrderSeen ==
    /\ ~fault
    /\ ALIGNMENT > HEADER
    /\ ret # Nil /\ ret # 0
    /\ \A b \in Blocks : ret - PTR \notin Chunks(b)
    /\ \E p \in Pools : top[p] = 0 /\ idle[p] = <<>> /\ all[p] # {}

====
